---- MODULE Spec2Model ----
(***************************************************************************)
(* Short-time Fourier analysis / synthesis of kaldi-enhan                  *)
(* (include/stft.h, include/stft.cc) and the covariance check of           *)
(* test-beamformer.cc.                                                     *)
(*                                                                         *)
(* BaseFloat values are modelled exactly: a value is a pair <<n, d>>, the  *)
(* rational n/d in lowest terms with d > 0; <<1,0>>, <<-1,0>> and <<0,0>>  *)
(* are +infinity, -infinity and NaN.  Floating rounding is not modelled.   *)
(* Vectors and matrices are functions over 0..len-1, as in the source.     *)
(***************************************************************************)
EXTENDS Integers, Sequences, FiniteSets, TLC

VARIABLES pc, opts, window_, wave, framed, reads, stft,
          spectra, angle, have_spectra, have_angle, spec_reads, angle_reads,
          polar, range, acc, writes, out,
          src_stft, mask, psd

vars == <<pc, opts, window_, wave, framed, reads, stft,
          spectra, angle, have_spectra, have_angle, spec_reads, angle_reads,
          polar, range, acc, writes, out,
          src_stft, mask, psd>>

(***************************************************************************)
(* Bounds of the model                                                     *)
(***************************************************************************)
MaxSamples == 6
MaxChannels == 2
MaxShift == 2
MaxBins == 2
MaxPsdFrames == 3
MaxPsdChannels == 3

\* frame lengths whose padded length is 1, 2 or 4: the sizes for which the
\* real FFT has integer twiddle factors and can be computed exactly
FrameLengths == 1..4

(***************************************************************************)
(* Exact arithmetic                                                        *)
(***************************************************************************)
Abs(x) == IF x < 0 THEN -x ELSE x

Sign(x) == IF x < 0 THEN -1 ELSE IF x > 0 THEN 1 ELSE 0

RECURSIVE GCD(_, _)
GCD(a, b) == IF b = 0 THEN a ELSE GCD(b, a % b)

\* truncation toward zero, the conversion static_cast<int32>(a / b) of a
\* float quotient (b > 0)
TruncDiv(a, b) == IF a >= 0 THEN a \div b ELSE -((-a) \div b)

NaN == <<0, 0>>
Zero == <<0, 1>>
One == <<1, 1>>

IsNaN(x) == x[2] = 0 /\ x[1] = 0
IsInf(x) == x[2] = 0 /\ x[1] # 0
IsFinite(x) == x[2] # 0

Rat(n, d) ==
    IF d = 0 THEN <<Sign(n), 0>>
    ELSE LET g == GCD(Abs(n), Abs(d))
             s == Sign(d)
         IN <<s * (n \div g), s * (d \div g)>>

RInt(n) == <<n, 1>>

RNeg(x) == <<-x[1], x[2]>>

RAbs(x) == <<Abs(x[1]), x[2]>>

RMul(x, y) ==
    IF IsNaN(x) \/ IsNaN(y) THEN NaN
    ELSE IF IsInf(x) \/ IsInf(y) THEN <<Sign(x[1]) * Sign(y[1]), 0>>
    ELSE LET g1 == GCD(Abs(x[1]), y[2])
             g2 == GCD(Abs(y[1]), x[2])
         IN <<(x[1] \div g1) * (y[1] \div g2), (x[2] \div g2) * (y[2] \div g1)>>

RDiv(x, y) ==
    IF IsNaN(x) \/ IsNaN(y) THEN NaN
    ELSE IF IsInf(y) THEN (IF IsInf(x) THEN NaN ELSE Zero)
    ELSE IF y[1] = 0 THEN <<Sign(x[1]), 0>>
    ELSE RMul(x, <<Sign(y[1]) * y[2], Abs(y[1])>>)

RAdd(x, y) ==
    IF IsNaN(x) \/ IsNaN(y) THEN NaN
    ELSE IF IsInf(x) THEN (IF IsInf(y) /\ x # y THEN NaN ELSE x)
    ELSE IF IsInf(y) THEN y
    ELSE LET g == GCD(x[2], y[2])
         IN Rat(x[1] * (y[2] \div g) + y[1] * (x[2] \div g), (x[2] \div g) * y[2])

RSub(x, y) == RAdd(x, RNeg(y))

\* x < y on floats: false as soon as one side is NaN
RLess(x, y) ==
    IF IsNaN(x) \/ IsNaN(y) THEN FALSE
    ELSE IF IsInf(x) THEN x[1] < 0 /\ y # x
    ELSE IF IsInf(y) THEN y[1] > 0
    ELSE LET g == GCD(x[2], y[2])
         IN x[1] * (y[2] \div g) < y[1] * (x[2] \div g)

RECURSIVE RSum(_, _, _)
\* sum of f[lo..hi], left to right
RSum(f, lo, hi) == IF lo > hi THEN Zero ELSE RAdd(RSum(f, lo, hi - 1), f[hi])

ZeroVec(n) == [k \in 0..(n - 1) |-> Zero]

Mat(r, c, d) == [rows |-> r, cols |-> c, data |-> d]

EmptyMat == Mat(0, 0, <<>>)

ScaleVec(v, c) == [k \in DOMAIN v |-> RMul(v[k], c)]

\* Scale(a / b): every entry times the quotient a / b.  The quotient can
\* exceed the integer range of TLC, so x * (a / b) is evaluated as
\* (x / b) * a, the same real number (0 / 0 and 0 * infinity are both NaN)
ScaleRatio(v, a, b) == [k \in DOMAIN v |-> RMul(RDiv(v[k], b), a)]

RECURSIVE Norm(_, _)
\* VectorBase::Norm(float_inf) over v[0..len-1]: sum = max(sum, |v[i]|)
\* from sum = 0; a NaN entry never compares greater and is skipped
Norm(v, len) ==
    IF len = 0 THEN Zero
    ELSE LET sum == Norm(v, len - 1)
             a == RAbs(v[len - 1])
         IN IF RLess(sum, a) THEN a ELSE sum

(***************************************************************************)
(* Configuration (ShortTimeFTOptions) and the cached window                *)
(***************************************************************************)
int16_max == 32767

KnownWindows == {"blackman", "hamming", "hanning", "rectangular"}

RECURSIVE RoundUp(_, _)
RoundUp(n, p) == IF p >= n THEN p ELSE RoundUp(n, 2 * p)

\* smallest power of two >= n for n >= 1
RoundUpToNearestPowerOfTwo(n) == IF n <= 0 THEN 0 ELSE RoundUp(n, 1)

PaddingLength(o) == RoundUpToNearestPowerOfTwo(o.frame_length)

NumFrames(o, num_samples) ==
    TruncDiv(num_samples - o.frame_length, o.frame_shift) + 1

NumSamples_ShiftOnly(o, num_frames) == num_frames * o.frame_shift

NumSamples(o, num_frames) == (num_frames - 1) * o.frame_shift + o.frame_length

\* cos(a * m) for a = M_2PI / (frame_length - 1); a is infinite when
\* frame_length = 1 and a * 0 is then NaN
CosA(m, frame_length) ==
    LET q == frame_length - 1
        r == IF q > 0 THEN m % q ELSE 0
    IN CASE q = 0 -> NaN
         [] q = 1 -> One
         [] q = 2 -> IF r = 0 THEN One ELSE RInt(-1)
         [] q = 3 -> IF r = 0 THEN One ELSE Rat(-1, 2)

WindowCoeff(w, i, frame_length) ==
    CASE w = "blackman" ->
             RAdd(RSub(Rat(42, 100), RMul(Rat(1, 2), CosA(i, frame_length))),
                  RMul(Rat(8, 100), CosA(2 * i, frame_length)))
      [] w = "hamming" ->
             RSub(Rat(54, 100), RMul(Rat(46, 100), CosA(i, frame_length)))
      [] w = "hanning" ->
             RSub(Rat(1, 2), RMul(Rat(1, 2), CosA(i, frame_length)))
      [] w = "rectangular" -> One

\* CacheWindow: the unknown-window error is raised inside the loop over
\* 0..frame_length-1, so only when that loop runs at least once
CacheWindowFails(o) == o.frame_length >= 1 /\ o.window \notin KnownWindows

CacheWindow(o) ==
    [i \in 0..(o.frame_length - 1) |-> WindowCoeff(o.window, i, o.frame_length)]

(***************************************************************************)
(* SplitRadixRealFft::Compute on a row of N = 1, 2 or 4 values, in the     *)
(* packed layout [r0, r(N/2), r1, i1, ...] documented in stft.h            *)
(***************************************************************************)
Cos4(q) == CASE q = 0 -> 1 [] q = 1 -> 0 [] q = 2 -> -1 [] q = 3 -> 0
Sin4(q) == CASE q = 0 -> 0 [] q = 1 -> 1 [] q = 2 -> 0 [] q = 3 -> -1

\* the angle 2*pi*n*k/N in quarter turns
Quarter(n, k, N) == (n * k * (4 \div N)) % 4

DftRe(x, k, N) ==
    RSum([n \in 0..(N - 1) |-> RMul(x[n], RInt(Cos4(Quarter(n, k, N))))], 0, N - 1)

DftIm(x, k, N) ==
    RSum([n \in 0..(N - 1) |-> RMul(x[n], RInt(-Sin4(Quarter(n, k, N))))], 0, N - 1)

\* forward real FFT, in place
RealFft(x, N) ==
    [j \in 0..(N - 1) |->
        IF j = 0 THEN DftRe(x, 0, N)
        ELSE IF j = 1 THEN DftRe(x, N \div 2, N)
        ELSE IF j % 2 = 0 THEN DftRe(x, j \div 2, N)
        ELSE DftIm(x, j \div 2, N)]

\* inverse real FFT, in place and unnormalised (N times the signal)
InverseRealFft(X, N) ==
    [n \in 0..(N - 1) |->
        LET nyq == IF N >= 2
                   THEN RMul(X[1], RInt(IF n % 2 = 0 THEN 1 ELSE -1))
                   ELSE Zero
            mid == RSum([f \in 1..(N \div 2 - 1) |->
                           RSub(RMul(X[2 * f], RInt(2 * Cos4(Quarter(n, f, N)))),
                                RMul(X[2 * f + 1], RInt(2 * Sin4(Quarter(n, f, N)))))],
                        1, N \div 2 - 1)
        IN RAdd(RAdd(X[0], nyq), mid)]

(***************************************************************************)
(* Inputs                                                                  *)
(***************************************************************************)
SignalKinds == <<"ramp", "zero", "mixed", "late">>

\* sample j of a test signal: 1,2,3,... / 0,0,0,... / 1,-1,-3,2,0,-2,... /
\* 0,0,0,0,5,6,...
Signal(kind, j) ==
    CASE kind = "ramp" -> j + 1
      [] kind = "zero" -> 0
      [] kind = "mixed" -> ((5 * j + 4) % 7) - 3
      [] kind = "late" -> IF j < 4 THEN 0 ELSE j + 1

\* channel c carries the signal kind that follows the one of channel c - 1
Wave(k, ch, n) ==
    Mat(ch, n, [c \in 0..(ch - 1) |->
                  [j \in 0..(n - 1) |-> RInt(Signal(SignalKinds[((k + c) % 4) + 1], j))]])

Waves ==
    { Wave(p[1], p[2], p[3]) : p \in (0..3) \X (1..MaxChannels) \X (1..MaxSamples) }

Ranges == {-1, 0, 3}

Options(fl, fs, w, ni, es, ap, al) ==
    [frame_length |-> fl, frame_shift |-> fs, window |-> w,
     normalize_input |-> ni, enable_scale |-> es, apply_pow |-> ap, apply_log |-> al]

(***************************************************************************)
(* ShortTimeFTComputer::ShortTimeFT                                        *)
(***************************************************************************)
\* copy_mat row c after the optional Scale(1.0 / int16_max) and the optional
\* per-channel Scale(int16_max / samp_norm)
Samples(o, w, c) ==
    LET copy == IF o.normalize_input
                THEN ScaleVec(w.data[c], RDiv(One, RInt(int16_max)))
                ELSE w.data[c]
    IN IF o.enable_scale
       THEN ScaleRatio(copy, RInt(int16_max), Norm(copy, w.cols))
       ELSE copy

FrameBegin_FrameLength(o, i) == i * o.frame_length

\* ibeg of frame i
FrameBegin(o, i) == i * o.frame_shift

FrameEnd(o, i, num_samples) ==
    IF FrameBegin(o, i) + o.frame_length <= num_samples
    THEN FrameBegin(o, i) + o.frame_length
    ELSE num_samples

\* the row of frame i of channel c after CopyFromVec and MulElements(window_)
FramedRow(o, win, w, c, i) ==
    LET ibeg == FrameBegin(o, i)
        iend == FrameEnd(o, i, w.cols)
        samples == Samples(o, w, c)
    IN [k \in 0..(PaddingLength(o) - 1) |->
          LET copied == IF k < iend - ibeg THEN samples[ibeg + k] ELSE Zero
          IN IF k < o.frame_length THEN RMul(copied, win[k]) ELSE copied]

\* the row c * num_frames + i of the output
RowIndex(c, i, num_frames) == c * num_frames + i

\* the rows written by the loops over c and i, before the FFT
FramedRows(o, win, w) ==
    LET num_frames == NumFrames(o, w.cols)
        R == num_frames * w.rows
    IN [r \in 0..(R - 1) |->
          LET ci == CHOOSE p \in (0..(w.rows - 1)) \X (0..(num_frames - 1)) :
                        RowIndex(p[1], p[2], num_frames) = r
          IN FramedRow(o, win, w, ci[1], ci[2])]

\* the caller's matrix after the call: it is passed by const reference and
\* every Scale goes to copy_mat
WaveAfterShortTimeFT_InPlace(o, w) ==
    Mat(w.rows, w.cols, [c \in 0..(w.rows - 1) |-> Samples(o, w, c)])

WaveAfterShortTimeFT(o, w) == w

SampleReads(o, w) ==
    UNION { FrameBegin(o, i)..(FrameEnd(o, i, w.cols) - 1) :
              i \in 0..(NumFrames(o, w.cols) - 1) }

ShortTimeFT ==
    /\ pc = "ready"
    /\ LET num_frames == NumFrames(opts, wave.cols)
           N == PaddingLength(opts)
       IN IF num_frames < 0
          THEN \* Resize with a negative row count
               /\ pc' = "error"
               /\ UNCHANGED <<wave, framed, reads, stft>>
          ELSE LET rows == FramedRows(opts, window_, wave)
               IN /\ pc' = "stft"
                  /\ wave' = WaveAfterShortTimeFT(opts, wave)
                  /\ framed' = Mat(num_frames * wave.rows, N, rows)
                  /\ reads' = SampleReads(opts, wave)
                  /\ stft' = Mat(num_frames * wave.rows, N,
                                 [r \in DOMAIN rows |-> RealFft(rows[r], N)])
    /\ UNCHANGED <<opts, window_, spectra, angle, have_spectra, have_angle,
                   spec_reads, angle_reads, polar, range, acc, writes, out,
                   src_stft, mask, psd>>

(***************************************************************************)
(* ShortTimeFTComputer::InverseShortTimeFT                                 *)
(***************************************************************************)
\* row i after the inverse FFT and Scale(1.0 / frame_length_)
InverseRow(o, row, N) ==
    ScaleVec(InverseRealFft(row, N), RDiv(One, RInt(o.frame_length)))

\* seg: the first frame_length values of the row, times the window
Segment(o, win, row) == [k \in 0..(o.frame_length - 1) |-> RMul(row[k], win[k])]

FrameOffset_Next(o, i) == (i + 1) * o.frame_shift

\* the first sample that frame i is added to
FrameOffset(o, i) == i * o.frame_shift

RECURSIVE OverlapAdd(_, _, _, _, _)
\* samples after the frames 0..i-1 have been added
OverlapAdd(o, win, rows, i, num_samples) ==
    IF i = 0 THEN ZeroVec(num_samples)
    ELSE LET prev == OverlapAdd(o, win, rows, i - 1, num_samples)
             seg == Segment(o, win, rows[i - 1])
             off == FrameOffset(o, i - 1)
         IN [j \in 0..(num_samples - 1) |->
               IF off <= j /\ j < off + o.frame_length
               THEN RAdd(prev[j], seg[j - off])
               ELSE prev[j]]

SampleWrites(o, num_frames) ==
    UNION { FrameOffset(o, i)..(FrameOffset(o, i) + o.frame_length - 1) :
              i \in 0..(num_frames - 1) }

\* the rescaling at the end of InverseShortTimeFT
Rescale(samples, len, rng) ==
    LET samp_norm == Norm(samples, len)
        r == IF rng = 0 THEN int16_max ELSE rng
    IN IF r >= 0 THEN ScaleRatio(samples, RInt(r), samp_norm) ELSE samples

InverseShortTimeFT ==
    /\ pc = "stft"
    /\ \E rng \in Ranges :
        LET num_frames == stft.rows
            num_samples == NumSamples(opts, num_frames)
        IN IF num_samples < 0
           THEN /\ pc' = "error"
                /\ UNCHANGED <<stft, range, acc, writes, out>>
           ELSE LET rows == [i \in 0..(num_frames - 1) |->
                               InverseRow(opts, stft.data[i], stft.cols)]
                    samples == OverlapAdd(opts, window_, rows, num_frames, num_samples)
                IN /\ pc' = "done"
                   /\ range' = rng
                   /\ stft' = [stft EXCEPT !.data = rows]
                   /\ acc' = samples
                   /\ writes' = SampleWrites(opts, num_frames)
                   /\ out' = Mat(1, num_samples,
                                 [c \in {0} |-> Rescale(samples, num_samples, rng)])
    /\ UNCHANGED <<opts, window_, wave, framed, reads, spectra, angle, have_spectra,
                   have_angle, spec_reads, angle_reads, polar, src_stft, mask, psd>>

(***************************************************************************)
(* Spectrum values.  A value of a magnitude, power or phase matrix is a    *)
(* record [n, d, root, lg]: the rational n/d, or sign(n) * sqrt(|n|/d) when *)
(* root is set, and the natural logarithm of that when lg is set.  A       *)
(* square root with a rational value is stored as that rational.  A phase  *)
(* is the direction [re, im] of the point it was taken from, in lowest     *)
(* integer terms; [0, 0] is NaN.                                           *)
(***************************************************************************)
\* 1 / std::numeric_limits<float>::epsilon() = 2^23
InvEpsilon == 8388608

VRat(x) == [n |-> x[1], d |-> x[2], root |-> FALSE, lg |-> FALSE]

VNaN == VRat(NaN)

VIsNaN(v) == v.d = 0 /\ v.n = 0

RECURSIVE ISqrtIn(_, _, _)
\* the largest r in lo..hi with r * r <= n
ISqrtIn(n, lo, hi) ==
    IF lo >= hi THEN lo
    ELSE LET mid == (lo + hi + 1) \div 2
         IN IF mid * mid <= n THEN ISqrtIn(n, mid, hi) ELSE ISqrtIn(n, lo, mid - 1)

ISqrt(n) == ISqrtIn(n, 0, IF n < 46340 THEN n ELSE 46340)

IsSquare(n) == n >= 0 /\ ISqrt(n) * ISqrt(n) = n

\* sign(x) * sqrt(|x|) of the rational x
SignedSqrt(x) ==
    IF x[2] = 0 THEN VRat(x)
    ELSE IF IsSquare(Abs(x[1])) /\ IsSquare(x[2])
    THEN VRat(<<Sign(x[1]) * ISqrt(Abs(x[1])), ISqrt(x[2])>>)
    ELSE [n |-> x[1], d |-> x[2], root |-> TRUE, lg |-> FALSE]

\* ApplyPow(0.5) on one value (NaN for a negative one)
VSqrt(v) ==
    IF VIsNaN(v) \/ v.n < 0 THEN VNaN ELSE SignedSqrt(<<v.n, v.d>>)

\* v < epsilon, for a value that is not a logarithm
VLessEpsilon(v) ==
    IF v.d = 0 THEN v.n < 0
    ELSE IF v.n <= 0 THEN TRUE
    ELSE IF v.root THEN v.n <= ((v.d - 1) \div InvEpsilon) \div InvEpsilon
    ELSE v.n <= (v.d - 1) \div InvEpsilon

\* ApplyFloor(epsilon) on one value: a NaN stays
VFloor(v) ==
    IF VIsNaN(v) THEN v
    ELSE IF VLessEpsilon(v) THEN VRat(<<1, InvEpsilon>>) ELSE v

VLog(v) == IF VIsNaN(v) THEN v ELSE [v EXCEPT !.lg = TRUE]

\* ApplyExp on one value, defined on the logarithms
VExp(v) == IF VIsNaN(v) THEN v ELSE CASE v.lg -> [v EXCEPT !.lg = FALSE]

VNeg(v) == [v EXCEPT !.n = -v.n]

\* atan2(y, x)
Atan2(y, x) ==
    IF IsNaN(x) \/ IsNaN(y) THEN [re |-> 0, im |-> 0]
    ELSE IF x[1] = 0 /\ y[1] = 0 THEN [re |-> 1, im |-> 0]
    ELSE LET g == GCD(x[2], y[2])
             X == x[1] * (y[2] \div g)
             Y == y[1] * (x[2] \div g)
             h == GCD(Abs(X), Abs(Y))
         IN [re |-> X \div h, im |-> Y \div h]

\* (c / sqrt(D)) * m for a magnitude m >= 0: cos(theta) * m with c = re and
\* sin(theta) * m with c = im, where D = re^2 + im^2
TrigTimes(c, theta, m) ==
    LET D == theta.re * theta.re + theta.im * theta.im
    IN IF D = 0 \/ VIsNaN(m) THEN VNaN
       ELSE IF IsSquare(D) /\ ~m.root
       THEN VRat(RMul(<<m.n, m.d>>, Rat(c, ISqrt(D))))
       ELSE LET X == IF m.root THEN <<m.n, m.d>> ELSE RMul(<<m.n, m.d>>, <<m.n, m.d>>)
                Q == RMul(RDiv(X, RInt(D)), RInt(c * c))
            IN SignedSqrt(<<Sign(c) * Q[1], Q[2]>>)

(***************************************************************************)
(* ShortTimeFTComputer::ComputeSpectrogram, ComputePhaseAngle and Polar    *)
(***************************************************************************)
NumBins(window_size) == (window_size \div 2) + 1

ReCol_Unpacked(f, num_bins) ==
    IF f = 0 THEN 0 ELSE IF f = num_bins - 1 THEN f * 2 - 1 ELSE f * 2

\* the column holding the real part of bin f
ReCol(f, num_bins) == IF f = 0 THEN 0 ELSE IF f = num_bins - 1 THEN 1 ELSE f * 2

\* the column holding the imaginary part of an interior bin f
ImCol(f) == f * 2 + 1

IsInterior(f, num_bins) == 1 <= f /\ f < num_bins - 1

\* the columns of a row that are read for bin f
BinColumns(f, num_bins) ==
    {ReCol(f, num_bins)} \cup (IF IsInterior(f, num_bins) THEN {ImCol(f)} ELSE {})

BinReads(window_size) ==
    [f \in 0..(NumBins(window_size) - 1) |-> BinColumns(f, NumBins(window_size))]

\* r * r + i * i, with i absent for bin 0 and the Nyquist bin
BinPower(row, f, num_bins) ==
    LET r == row[ReCol(f, num_bins)]
    IN IF IsInterior(f, num_bins)
       THEN RAdd(RMul(r, r), RMul(row[ImCol(f)], row[ImCol(f)]))
       ELSE RMul(r, r)

SpectrogramValue(o, p) ==
    LET m == IF o.apply_pow THEN VRat(p) ELSE VSqrt(VRat(p))
    IN IF o.apply_log THEN VLog(VFloor(m)) ELSE m

\* the code reads column 1 of every row: the buffer has at least two columns
ComputeSpectrogram ==
    /\ pc = "stft"
    /\ ~have_spectra
    /\ stft.cols >= 2
    /\ LET num_bins == NumBins(stft.cols)
       IN spectra' = Mat(stft.rows, num_bins,
                         [t \in 0..(stft.rows - 1) |->
                            [f \in 0..(num_bins - 1) |->
                               SpectrogramValue(opts, BinPower(stft.data[t], f, num_bins))]])
    /\ spec_reads' = BinReads(stft.cols)
    /\ have_spectra' = TRUE
    /\ UNCHANGED <<pc, opts, window_, wave, framed, reads, stft, angle, have_angle,
                   angle_reads, polar, range, acc, writes, out, src_stft, mask, psd>>

BinAngle(row, f, num_bins) ==
    IF IsInterior(f, num_bins)
    THEN Atan2(row[ImCol(f)], row[ReCol(f, num_bins)])
    ELSE Atan2(Zero, row[ReCol(f, num_bins)])

ComputePhaseAngle ==
    /\ pc = "stft"
    /\ ~have_angle
    /\ stft.cols >= 2
    /\ LET num_bins == NumBins(stft.cols)
       IN angle' = Mat(stft.rows, num_bins,
                       [t \in 0..(stft.rows - 1) |->
                          [f \in 0..(num_bins - 1) |-> BinAngle(stft.data[t], f, num_bins)]])
    /\ angle_reads' = BinReads(stft.cols)
    /\ have_angle' = TRUE
    /\ UNCHANGED <<pc, opts, window_, wave, framed, reads, stft, spectra, have_spectra,
                   spec_reads, polar, range, acc, writes, out, src_stft, mask, psd>>

\* spectra after the in-place ApplyExp and ApplyPow(0.5) of Polar
Magnitude(o, v) ==
    LET e == IF o.apply_log THEN VExp(v) ELSE v
    IN IF o.apply_pow THEN VSqrt(e) ELSE e

\* column j of the row rebuilt from the magnitudes m and the phases th
PolarValue(m, th, j, num_bins) ==
    IF j = 0 THEN m[0]
    ELSE IF j = 1 THEN VNeg(m[num_bins - 1])
    ELSE IF j % 2 = 0 THEN TrigTimes(th[j \div 2].re, th[j \div 2], m[j \div 2])
    ELSE TrigTimes(th[j \div 2].im, th[j \div 2], m[j \div 2])

Polar ==
    /\ pc = "stft"
    /\ have_spectra /\ have_angle
    /\ spectra.cols = angle.cols /\ spectra.rows = angle.rows
    /\ LET num_bins == spectra.cols
           window_size == (num_bins - 1) * 2
           mags == [t \in 0..(spectra.rows - 1) |->
                      [f \in 0..(num_bins - 1) |-> Magnitude(opts, spectra.data[t][f])]]
       IN /\ spectra' = [spectra EXCEPT !.data = mags]
          /\ polar' = Mat(spectra.rows, window_size,
                          [t \in 0..(spectra.rows - 1) |->
                             [j \in 0..(window_size - 1) |->
                                PolarValue(mags[t], angle.data[t], j, num_bins)]])
    /\ pc' = "polar"
    /\ UNCHANGED <<opts, window_, wave, framed, reads, stft, angle, have_spectra,
                   have_angle, spec_reads, angle_reads, range, acc, writes, out,
                   src_stft, mask, psd>>

(***************************************************************************)
(* ShortTimeFTComputer::ShortTimeFTComputer                                *)
(***************************************************************************)
Construct ==
    /\ pc = "new"
    /\ IF CacheWindowFails(opts)
       THEN pc' = "error" /\ UNCHANGED window_
       ELSE pc' = "ready" /\ window_' = CacheWindow(opts)
    /\ UNCHANGED <<opts, wave, framed, reads, stft, spectra, angle, have_spectra,
                   have_angle, spec_reads, angle_reads, polar, range, acc, writes, out,
                   src_stft, mask, psd>>

(***************************************************************************)
(* CovarianceEstimator (EstimatePsd), as called by test_estimate_psd:      *)
(* src_stft has bins * frames rows of one complex value per channel, mask  *)
(* is frames x bins, psd stacks one channels x channels block per bin.     *)
(* A complex value is a pair <<re, im>> of rationals.                      *)
(***************************************************************************)
CMul(x, y) ==
    <<RSub(RMul(x[1], y[1]), RMul(x[2], y[2])), RAdd(RMul(x[1], y[2]), RMul(x[2], y[1]))>>

CConj(x) == <<x[1], RNeg(x[2])>>

CAdd(x, y) == <<RAdd(x[1], y[1]), RAdd(x[2], y[2])>>

CScale(x, a) == <<RMul(x[1], a), RMul(x[2], a)>>

CZero == <<Zero, Zero>>

RECURSIVE CSum(_, _, _)
CSum(f, lo, hi) == IF lo > hi THEN CZero ELSE CAdd(CSum(f, lo, hi - 1), f[hi])

\* the row of src_stft holding frame t of bin f
ObsRow(f, t, num_frames) == f * num_frames + t

PsdAccum_NoConj(x, m, f, a, b) ==
    CSum([t \in 0..(m.rows - 1) |->
            CScale(CMul(x.data[ObsRow(f, t, m.rows)][a], x.data[ObsRow(f, t, m.rows)][b]),
                   m.data[t][f])],
         0, m.rows - 1)

\* sum over the frames t of mask(t, f) * x(t, f)[a] * conj(x(t, f)[b])
PsdAccum(x, m, f, a, b) ==
    CSum([t \in 0..(m.rows - 1) |->
            CScale(CMul(x.data[ObsRow(f, t, m.rows)][a],
                        CConj(x.data[ObsRow(f, t, m.rows)][b])),
                   m.data[t][f])],
         0, m.rows - 1)

MaskSum(m, f) == RSum([t \in 0..(m.rows - 1) |-> m.data[t][f]], 0, m.rows - 1)

\* entry (a, b) of the block of bin f: the accumulation over the summed
\* weight; a bin whose weights sum to zero keeps the accumulation
PsdEntry(x, m, f, a, b) ==
    IF MaskSum(m, f) = Zero THEN PsdAccum(x, m, f, a, b)
    ELSE CScale(PsdAccum(x, m, f, a, b), RDiv(One, MaskSum(m, f)))

EstimatePsd ==
    /\ pc = "psd_input"
    /\ psd' = Mat(mask.cols * src_stft.cols, src_stft.cols,
                  [r \in 0..(mask.cols * src_stft.cols - 1) |->
                     [b \in 0..(src_stft.cols - 1) |->
                        PsdEntry(src_stft, mask, r \div src_stft.cols,
                                 r % src_stft.cols, b)]])
    /\ pc' = "psd_done"
    /\ UNCHANGED <<opts, window_, wave, framed, reads, stft, spectra, angle,
                   have_spectra, have_angle, spec_reads, angle_reads, polar, range,
                   acc, writes, out, src_stft, mask>>

(***************************************************************************)
(* Specifications                                                          *)
(***************************************************************************)
\* every window with the default flags, and every setting of apply_pow and
\* apply_log with the rectangular window
Configs ==
    { Options(fl, fs, w, FALSE, FALSE, ap, al) :
        <<fl, fs, w, ap, al>> \in
            (FrameLengths \X (1..MaxShift) \X KnownWindows \X {FALSE} \X {FALSE})
            \cup (FrameLengths \X (1..MaxShift) \X {"rectangular"} \X BOOLEAN \X BOOLEAN) }

\* every window with the input scaling off, and every input scaling with the
\* rectangular window (the squares of the scaled samples, and their products
\* with two windows, leave the integers of TLC)
ScaleConfigs ==
    { Options(fl, fs, w, ni, es, FALSE, FALSE) :
        <<fl, fs, w, ni, es>> \in
            (FrameLengths \X (1..MaxShift) \X KnownWindows \X {FALSE} \X {FALSE})
            \cup (FrameLengths \X (1..MaxShift) \X {"rectangular"} \X BOOLEAN \X BOOLEAN) }

Idle ==
    /\ framed = EmptyMat /\ reads = {} /\ stft = EmptyMat
    /\ spectra = EmptyMat /\ angle = EmptyMat
    /\ have_spectra = FALSE /\ have_angle = FALSE
    /\ spec_reads = <<>> /\ angle_reads = <<>>
    /\ polar = EmptyMat /\ range = 0 /\ acc = <<>> /\ writes = {} /\ out = EmptyMat
    /\ src_stft = EmptyMat /\ mask = EmptyMat /\ psd = EmptyMat

Init ==
    /\ pc = "ready"
    /\ opts \in Configs
    /\ window_ = CacheWindow(opts)
    /\ wave \in Waves
    /\ Idle

Next ==
    \/ ShortTimeFT
    \/ ComputeSpectrogram
    \/ ComputePhaseAngle
    \/ Polar
    \/ InverseShortTimeFT

Spec == Init /\ [][Next]_vars

\* analysis and synthesis under every input scaling
InitScale ==
    /\ pc = "ready"
    /\ opts \in ScaleConfigs
    /\ window_ = CacheWindow(opts)
    /\ wave \in Waves
    /\ Idle

NextScale == ShortTimeFT \/ InverseShortTimeFT

SpecScale == InitScale /\ [][NextScale]_vars

\* analysis followed by synthesis: rectangular window, frame_shift equal to
\* frame_length, one channel
RoundTripConfigs ==
    { Options(fl, fl, "rectangular", ni, es, FALSE, FALSE) :
        <<fl, ni, es>> \in FrameLengths \X BOOLEAN \X BOOLEAN }

InitRoundTrip ==
    /\ pc = "ready"
    /\ opts \in RoundTripConfigs
    /\ window_ = CacheWindow(opts)
    /\ wave \in {w \in Waves : w.rows = 1}
    /\ Idle

SpecRoundTrip == InitRoundTrip /\ [][NextScale]_vars

\* configuration: any window name, frame_length from 0
WindowNames == KnownWindows \cup {"triangular"}

InitConfig ==
    /\ pc = "new"
    /\ opts \in { Options(fl, fs, w, FALSE, FALSE, FALSE, FALSE) :
                    <<fl, fs, w>> \in (0..2) \X (1..MaxShift) \X WindowNames }
    /\ window_ = <<>>
    /\ wave \in Waves
    /\ Idle

NextConfig == Construct \/ Next

SpecConfig == InitConfig /\ [][NextConfig]_vars

\* covariance estimation on patterned spectra and masks
CValues == <<<<1, 0>>, <<0, 1>>, <<2, -1>>, <<-1, -3>>, <<0, 0>>>>

MaskValues == <<1, -1, 0, 2>>

PsdSpectrum(s, rows, channels) ==
    Mat(rows, channels,
        [r \in 0..(rows - 1) |->
           [a \in 0..(channels - 1) |->
              LET v == CValues[((s + r * channels + a) % Len(CValues)) + 1]
              IN <<RInt(v[1]), RInt(v[2])>>]])

PsdMask(s, frames, bins) ==
    Mat(frames, bins,
        [t \in 0..(frames - 1) |->
           [f \in 0..(bins - 1) |->
              RInt(MaskValues[((s + t * bins + f) % Len(MaskValues)) + 1])]])

InitPsd ==
    /\ pc = "psd_input"
    /\ opts = Options(1, 1, "rectangular", FALSE, FALSE, FALSE, FALSE)
    /\ window_ = <<>>
    /\ wave = EmptyMat
    /\ framed = EmptyMat /\ reads = {} /\ stft = EmptyMat
    /\ spectra = EmptyMat /\ angle = EmptyMat
    /\ have_spectra = FALSE /\ have_angle = FALSE
    /\ spec_reads = <<>> /\ angle_reads = <<>>
    /\ polar = EmptyMat /\ range = 0 /\ acc = <<>> /\ writes = {} /\ out = EmptyMat
    /\ psd = EmptyMat
    /\ \E f \in 1..MaxBins, t \in 1..MaxPsdFrames, c \in 2..MaxPsdChannels,
          s \in 0..(Len(CValues) - 1), m \in 0..(Len(MaskValues) - 1) :
          /\ src_stft = PsdSpectrum(s, f * t, c)
          /\ mask = PsdMask(m, t, f)

SpecPsd == InitPsd /\ [][EstimatePsd]_vars

(***************************************************************************)
(* Properties                                                              *)
(***************************************************************************)
Min(a, b) == IF a < b THEN a ELSE b

Analysed == pc \in {"stft", "polar", "done"}

\* the smallest power of two that is at least n
SmallestPowerOfTwo(n) ==
    CHOOSE p \in {1, 2, 4, 8} : p >= n /\ \A q \in {1, 2, 4, 8} : q >= n => p <= q

\* C1: after Forward on a waveform of num_channels rows and num_samples
\* columns, with frame_length >= 1 and frame_shift >= 1, the buffer has
\* num_channels * (floor((num_samples - frame_length) / frame_shift) + 1) rows
\* and as many columns as the smallest power of two >= frame_length
C1_ForwardShape ==
    (pc \in {"stft", "polar", "done", "error"} /\ opts.frame_length >= 1) =>
        /\ stft.rows =
             wave.rows * (((wave.cols - opts.frame_length) \div opts.frame_shift) + 1)
        /\ stft.cols = SmallestPowerOfTwo(opts.frame_length)

PeakAbs(c) ==
    CHOOSE m \in {Abs(wave.data[c][j][1]) : j \in 0..(wave.cols - 1)} :
        \A j \in 0..(wave.cols - 1) : Abs(wave.data[c][j][1]) <= m

\* sample j of channel c as the internal copy holds it: times 32767 / peak
\* under enable_scale, else over 32767 under normalize_input, else unchanged
ScaledSample(c, j) ==
    LET x == wave.data[c][j][1]
    IN IF opts.enable_scale THEN Rat(int16_max * x, PeakAbs(c))
       ELSE IF opts.normalize_input THEN Rat(x, int16_max)
       ELSE RInt(x)

Proportional(o, w, len) ==
    /\ \A j \in 0..(len - 1) : IsFinite(o[j])
    /\ LET nz == {j \in 0..(len - 1) : w[j] # Zero}
       IN IF nz = {} THEN \A j \in 0..(len - 1) : o[j] = Zero
          ELSE LET j0 == CHOOSE j \in nz : TRUE
                   s == RDiv(o[j0], w[j0])
               IN \A j \in 0..(len - 1) : o[j] = RMul(s, w[j])

C4_PeakEqualsRange ==
    pc = "done" =>
        /\ range > 0 => Norm(out.data[0], out.cols) = RInt(range)
        /\ range = 0 => Norm(out.data[0], out.cols) = RInt(int16_max)
        /\ range < 0 => out.data[0] = acc

C6_Hermitian ==
    pc = "psd_done" =>
        \A f \in 0..(mask.cols - 1), a \in 0..(src_stft.cols - 1), b \in 0..(src_stft.cols - 1) :
            psd.data[f * src_stft.cols + a][b] = CConj(psd.data[f * src_stft.cols + b][a])

\* a three-channel covariance with a negative weight and a complex entry
C6_Witness ==
    /\ pc = "psd_done"
    /\ src_stft.cols = 3
    /\ mask.rows >= 2
    /\ \E t \in 0..(mask.rows - 1) : mask.data[t][0][1] < 0
    /\ psd.data[0][1][2] # Zero

C8_WaveUnchanged == [][(pc = "ready" /\ pc' = "stft") => wave' = wave]_vars

\* Forward has run on two channels with both input scalings on
C8_Witness ==
    /\ pc = "stft"
    /\ opts.normalize_input /\ opts.enable_scale
    /\ wave.rows = 2
    /\ stft.rows >= 2
    /\ \E k \in 0..(stft.cols - 1) : IsFinite(stft.data[0][k]) /\ stft.data[0][k] # Zero

\* C9: Polar(ComputeSpectrogram(b), ComputePhaseAngle(b)) equals b in every
\* column, for every setting of apply_pow and apply_log
C9_PolarInverts ==
    pc = "polar" =>
        /\ polar.rows = stft.rows /\ polar.cols = stft.cols
        /\ \A t \in 0..(stft.rows - 1), j \in 0..(stft.cols - 1) :
             polar.data[t][j] = VRat(stft.data[t][j])

\* the columns a pass over the bins of an N-column row reads
PackedReads(rd, N) ==
    /\ DOMAIN rd = 0..(N \div 2)
    /\ rd[0] = {0}
    /\ rd[N \div 2] = {1}
    /\ \A f \in 1..(N \div 2 - 1) : rd[f] = {2 * f, 2 * f + 1}
    /\ \A f \in DOMAIN rd : rd[f] \subseteq 0..(N - 1)
    /\ \A col \in 0..(N - 1) : Cardinality({f \in DOMAIN rd : col \in rd[f]}) = 1

\* C10: on a packed buffer of N >= 2 columns, ComputeSpectrogram and
\* ComputePhaseAngle produce N/2 + 1 bins per row; bin 0 is read from column 0,
\* bin N/2 from column 1, an interior bin f from columns 2f and 2f+1; every
\* column read is in 0..N-1 and every column is read by exactly one bin
C10_PackedBins ==
    LET N == stft.cols
    IN /\ have_spectra =>
            /\ spectra.cols = N \div 2 + 1
            /\ PackedReads(spec_reads, N)
            /\ (pc = "stft" /\ opts.apply_pow /\ ~opts.apply_log) =>
                  \A t \in 0..(stft.rows - 1) :
                     /\ DOMAIN spectra.data[t] = 0..(N \div 2)
                     /\ spectra.data[t][0] = VRat(RMul(stft.data[t][0], stft.data[t][0]))
                     /\ spectra.data[t][N \div 2] =
                          VRat(RMul(stft.data[t][1], stft.data[t][1]))
                     /\ \A f \in 1..(N \div 2 - 1) :
                          spectra.data[t][f] =
                            VRat(RAdd(RMul(stft.data[t][2 * f], stft.data[t][2 * f]),
                                      RMul(stft.data[t][2 * f + 1], stft.data[t][2 * f + 1])))
       /\ have_angle =>
            /\ angle.cols = N \div 2 + 1
            /\ PackedReads(angle_reads, N)
            /\ pc = "stft" =>
                  \A t \in 0..(stft.rows - 1) :
                     /\ DOMAIN angle.data[t] = 0..(N \div 2)
                     /\ angle.data[t][0] = Atan2(Zero, stft.data[t][0])
                     /\ angle.data[t][N \div 2] = Atan2(Zero, stft.data[t][1])
                     /\ \A f \in 1..(N \div 2 - 1) :
                          angle.data[t][f] = Atan2(stft.data[t][2 * f + 1], stft.data[t][2 * f])

\* power spectrum and phase of a four-column buffer with an interior bin
C10_Witness ==
    /\ pc = "stft"
    /\ have_spectra /\ have_angle
    /\ opts.apply_pow /\ ~opts.apply_log
    /\ stft.cols = 4 /\ stft.rows >= 2
    /\ spec_reads[1] = {2, 3}
    /\ spectra.data[0][1].n > 0

====
